---- MODULE Spec2Model ----
(***************************************************************************)
(* turntie: a pair of TURN allocations with mobility, tied to each other.  *)
(*                                                                         *)
(*   tie()               crates/turntie/src/lib.rs 68-176                  *)
(*   Data (descriptor)   crates/turntie/src/lib.rs 29-65                   *)
(*   connect()           crates/turntie/src/lib.rs 182-209                 *)
(*   TurnTie (Stream)    crates/turntie/src/lib.rs 211-243                 *)
(*   TurnTie (Sink)      crates/turntie/src/lib.rs 245-277                 *)
(*                                                                         *)
(* The TURN client (crate turnclient) is an external collaborator: a       *)
(* session is modelled by the events it delivers and the directives it is  *)
(* handed.                                                                 *)
(***************************************************************************)
EXTENDS Integers, Sequences, FiniteSets, TLC

VARIABLES
    args,                \* tie()'s arguments: turn_server, username, password
    c1, c2,              \* the two sessions: directives handed to them, negotiated state
    addr1, addr2,        \* Option<SocketAddr>, lib.rs 93-94
    ready1, ready2,      \* lib.rs 95-96
    perm_requests_sent,  \* lib.rs 98
    pc,                  \* where tie() is: "select", "send1", "send2", "done",
                         \* "failed" (returned Err), "panicked"
    returned,            \* Some((String, String)) once tie() returned Ok
    error,               \* Some(error) once tie() returned Err
    polls,               \* number of select! completions so far
    msg,                 \* the last select! completion: Some([first, item])
    alloc,               \* per session, the relay address the relay last reported
    confirm,             \* per side, the address of the PermissionCreated that
                         \* set its ready flag
    relay,               \* the mock relay's progress per session
    turnclient,          \* TurnTie.turnclient: what the session will still
                         \* deliver, what it was handed, what it was restored from
    counterpart,         \* TurnTie.counterpart, lib.rs 215
    consumed,            \* the session's items poll_next has taken so far
    yielded,             \* the items poll_next has returned as Ready, in order
    last_poll,           \* the result of the last poll_next call
    descriptor,          \* the Data a specifier is made from
    specifier,           \* Some(text) once the text exists: connect()'s argument
    damage,              \* what happened to the text on its way to connect()
    cpc,                 \* where connect() is: "new", "serialized" (not called
                         \* yet), "connected" (returned Ok), "failed"
    decoded,             \* Some(what Data::deserialize returned inside connect())
    conn_error,          \* Some(error) once connect() returned Err
    udp,                 \* the number of UDP sockets connect() has bound
    accepted,            \* the payloads given to TurnTie::start_send, in order
    sink_ret,            \* the last call of a Sink method and what it returned
    stalled              \* the sessions whose sink waits for their stream to be
                         \* polled, lib.rs 151 and 180

tieVars == <<args, c1, c2, addr1, addr2, ready1, ready2, perm_requests_sent,
             pc, returned, error, polls, msg, alloc, confirm, relay>>

streamVars == <<turnclient, counterpart, consumed, yielded, last_poll>>

connVars == <<descriptor, specifier, damage, cpc, decoded, conn_error, udp,
              accepted, sink_ret>>

vars == <<tieVars, streamVars, connVars, stalled>>

(***************************************************************************)
(* Bounds of the model.                                                    *)
(***************************************************************************)
MaxPolls == 6
MaxIncoming == 3
MaxSends == 2

(***************************************************************************)
(* Option<T>: None is the empty tuple, Some(x) the one-element tuple.      *)
(***************************************************************************)
None == <<>>
Some(x) == <<x>>
is_some(o) == o # None
unwrap(o) == o[1]

(***************************************************************************)
(* Socket addresses and byte strings.                                      *)
(***************************************************************************)
SockV4(a, b, c, d, port) == [ip |-> <<a, b, c, d>>, port |-> port]

TurnServer == SockV4(192, 0, 2, 1, 3478)
RelayA     == SockV4(192, 0, 2, 1, 50001)
RelayB     == SockV4(192, 0, 2, 1, 50002)
Stranger   == SockV4(198, 51, 100, 7, 9)
Addrs      == {RelayA, RelayB, Stranger}

\* "u", "p", "r" and two nonces / tickets as byte strings
Usernames == {<<117>>}
Passwords == {<<112>>}
Realms    == {<<114>>}
Nonces    == {<<110>>}
Tickets   == {<<0, 255>>, <<7>>}

(***************************************************************************)
(* Data, lib.rs 29-65.  The descriptor and its text form                   *)
(* base64(zlib(bincode(Data))).                                            *)
(***************************************************************************)
\* ExportedParameters of a session (turnclient): what export_state() returns.
export_state(c) ==
    [realm |-> c.state.realm, nonce |-> c.state.nonce,
     mobility_ticket |-> c.state.mobility_ticket,
     permissions |-> [i \in 1..Len(c.sink) |-> c.sink[i].addr]]

\* Data::new, lib.rs 41-51
Data_new(turn_server, username, password, state, peer) ==
    [turn_server |-> turn_server,
     username |-> username,
     password |-> password,
     realm |-> state.realm,
     nonce |-> state.nonce,
     mobility_ticket |-> state.mobility_ticket,
     counterpart |-> peer]

\* n as `width` little-endian bytes (bincode's fixed-width integers)
RECURSIVE LE(_, _)
LE(n, width) ==
    IF width = 0 THEN <<>> ELSE <<n % 256>> \o LE(n \div 256, width - 1)

\* n as `width` big-endian bytes (the zlib trailer)
RECURSIVE BE(_, _)
BE(n, width) ==
    IF width = 0 THEN <<>> ELSE BE(n \div 256, width - 1) \o <<n % 256>>

\* bincode of a String or Vec<u8>: u64 length, then the bytes
bincode_bytes(s) == LE(Len(s), 8) \o s

\* bincode of a SocketAddr: u32 variant (0 = V4, 1 = V6), the octets, u16 port
bincode_sockaddr(a) ==
    LE(IF Len(a.ip) = 4 THEN 0 ELSE 1, 4) \o a.ip \o LE(a.port, 2)

\* bincode::serialize(&Data), lib.rs 53: the seven fields in declaration order
bincode_serialize(d) ==
    bincode_sockaddr(d.turn_server) \o bincode_bytes(d.username)
    \o bincode_bytes(d.password) \o bincode_bytes(d.realm)
    \o bincode_bytes(d.nonce) \o bincode_bytes(d.mobility_ticket)
    \o bincode_sockaddr(d.counterpart)

\* the sum of weight(i) * bytes[i] for i in lo..hi, by halving the range
RECURSIVE weighted_sum(_, _, _, _)
weighted_sum(bytes, lo, hi, step) ==
    IF lo > hi THEN 0
    ELSE IF lo = hi THEN (1 + step * (Len(bytes) - lo)) * bytes[lo]
    ELSE LET mid == (lo + hi) \div 2
         IN  weighted_sum(bytes, lo, mid, step)
             + weighted_sum(bytes, mid + 1, hi, step)

\* Adler-32 of a byte string, as its four big-endian bytes: a is 1 plus the
\* sum of the bytes, b the sum of the successive values of a, both mod 65521
adler32(bytes) ==
    LET a == (1 + weighted_sum(bytes, 1, Len(bytes), 0)) % 65521
        b == (Len(bytes) + weighted_sum(bytes, 1, Len(bytes), 1)) % 65521
    IN  BE(b, 2) \o BE(a, 2)

\* ZlibEncoder, lib.rs 54-56: the zlib container (two header bytes, DEFLATE
\* body, Adler-32 of the plain bytes).  The DEFLATE body is modelled by its
\* stored-block form; the Huffman coding of the bytes is not modelled.
zlib_encode(bytes) ==
    <<120, 156>> \o <<1>> \o LE(Len(bytes), 2) \o LE(65535 - Len(bytes), 2)
    \o bytes \o adler32(bytes)

\* the base64 STANDARD alphabet, as ASCII codes
b64_char(i) ==
    IF i < 26 THEN 65 + i
    ELSE IF i < 52 THEN 71 + i
    ELSE IF i < 62 THEN i - 4
    ELSE IF i = 62 THEN 43 ELSE 47

\* STANDARD.encode, lib.rs 56: every three bytes give four characters, the
\* last group padded with '='
base64_encode(b) ==
    LET n == Len(b)
        byte(x) == IF x <= n THEN b[x] ELSE 0
        char(i) ==
            LET k == (i - 1) \div 4
                j == (i - 1) % 4
                b1 == byte(3 * k + 1)
                b2 == byte(3 * k + 2)
                b3 == byte(3 * k + 3)
            IN  IF j = 0 THEN b64_char(b1 \div 4)
                ELSE IF j = 1 THEN b64_char((b1 % 4) * 16 + b2 \div 16)
                ELSE IF j = 2 THEN
                    IF 3 * k + 2 > n THEN 61
                    ELSE b64_char((b2 % 16) * 4 + b3 \div 64)
                ELSE IF 3 * k + 3 > n THEN 61 ELSE b64_char(b3 % 64)
    IN  [i \in 1..(4 * ((n + 2) \div 3)) |-> char(i)]

\* Data::serialize, lib.rs 52-57: q, then the compressed bytes, then the text
\* (each step is bound to its value, so it is evaluated once)
serialize(d) ==
    CHOOSE text \in {base64_encode(z) :
                        z \in {zlib_encode(q) :
                                  q \in {bincode_serialize(d)}}} : TRUE

(***************************************************************************)
(* Data::deserialize, lib.rs 58-64: the three decoding steps, each of      *)
(* which can fail.                                                         *)
(***************************************************************************)
\* Result<T, E>
ResultOk(v) == [ok |-> TRUE, v |-> v]
ResultErr(e) == [ok |-> FALSE, e |-> e]

\* the value of a character of the base64 STANDARD alphabet, or -1
b64_index(c) ==
    IF c >= 65 /\ c <= 90 THEN c - 65
    ELSE IF c >= 97 /\ c <= 122 THEN c - 71
    ELSE IF c >= 48 /\ c <= 57 THEN c + 4
    ELSE IF c = 43 THEN 62
    ELSE IF c = 47 THEN 63
    ELSE -1

\* STANDARD.decode, lib.rs 59: whole groups of four characters of the
\* alphabet, '=' only as the last one or two characters, unused bits zero
base64_decode(text) ==
    LET n == Len(text)
        pad == IF n >= 1 /\ text[n] = 61
               THEN IF n >= 2 /\ text[n - 1] = 61 THEN 2 ELSE 1
               ELSE 0
        idx(i) == IF i > n - pad THEN 0 ELSE b64_index(text[i])
        byte(x) ==
            LET k == (x - 1) \div 3
                j == (x - 1) % 3
            IN  IF j = 0 THEN idx(4 * k + 1) * 4 + idx(4 * k + 2) \div 16
                ELSE IF j = 1
                THEN (idx(4 * k + 2) % 16) * 16 + idx(4 * k + 3) \div 4
                ELSE (idx(4 * k + 3) % 4) * 64 + idx(4 * k + 4)
    IN  IF n % 4 # 0 THEN ResultErr("base64: invalid length")
        ELSE IF \E i \in 1..(n - pad) : b64_index(text[i]) < 0
        THEN ResultErr("base64: invalid byte")
        ELSE IF \/ pad = 1 /\ idx(n - 1) % 4 # 0
                \/ pad = 2 /\ idx(n - 2) % 16 # 0
        THEN ResultErr("base64: invalid last symbol")
        ELSE ResultOk([x \in 1..(3 * (n \div 4) - pad) |-> byte(x)])

\* ZlibDecoder::write_all and finish, lib.rs 60-62, over the stored-block
\* form zlib_encode produces: the header must be a zlib header, the block a
\* final stored block whose two length fields agree, the trailer the
\* Adler-32 of the body, and nothing may follow the trailer.  Input that
\* stops short of the trailer is not reported by the write-side decoder: it
\* yields the bytes inflated so far.
zlib_decode(z) ==
    LET n == Len(z)
        len == z[4] + 256 * z[5]
        nlen == z[6] + 256 * z[7]
        body == SubSeq(z, 8, 7 + len)
    IN  IF n < 2 THEN ResultOk(<<>>)
        ELSE IF \/ z[1] % 16 # 8
                \/ z[1] \div 16 > 7
                \/ (z[1] * 256 + z[2]) % 31 # 0
                \/ (z[2] \div 32) % 2 = 1
        THEN ResultErr("corrupt deflate stream")
        ELSE IF n < 3 THEN ResultOk(<<>>)
        ELSE IF z[3] # 1 THEN ResultErr("corrupt deflate stream")
        ELSE IF n < 7 THEN ResultOk(<<>>)
        ELSE IF len + nlen # 65535 THEN ResultErr("corrupt deflate stream")
        ELSE IF n < 11 + len THEN ResultOk(SubSeq(z, 8, IF n < 7 + len THEN n ELSE 7 + len))
        ELSE IF SubSeq(z, 8 + len, 11 + len) # adler32(body)
        THEN ResultErr("corrupt deflate stream")
        ELSE IF n > 11 + len THEN ResultErr("failed to write whole buffer")
        ELSE ResultOk(body)

\* is b[lo..hi] well-formed UTF-8 (String's invariant, checked by bincode)
RECURSIVE is_utf8(_, _, _)
is_utf8(b, lo, hi) ==
    LET cont(i) == i <= hi /\ b[i] >= 128 /\ b[i] <= 191
        within(i, x, y) == i <= hi /\ b[i] >= x /\ b[i] <= y
        c == b[lo]
    IN  IF lo > hi THEN TRUE
        ELSE IF c < 128 THEN is_utf8(b, lo + 1, hi)
        ELSE IF c >= 194 /\ c <= 223
        THEN cont(lo + 1) /\ is_utf8(b, lo + 2, hi)
        ELSE IF c >= 224 /\ c <= 239
        THEN /\ within(lo + 1, IF c = 224 THEN 160 ELSE 128,
                               IF c = 237 THEN 159 ELSE 191)
             /\ cont(lo + 2)
             /\ is_utf8(b, lo + 3, hi)
        ELSE IF c >= 240 /\ c <= 244
        THEN /\ within(lo + 1, IF c = 240 THEN 144 ELSE 128,
                               IF c = 244 THEN 143 ELSE 191)
             /\ cont(lo + 2)
             /\ cont(lo + 3)
             /\ is_utf8(b, lo + 4, hi)
        ELSE FALSE

\* bincode's reading of one field at b[pos..]: "addr" a SocketAddr, "string"
\* a String, "bytes" a Vec<u8>.  next is the position after the field.
bincode_read(b, pos, kind) ==
    LET n == Len(b)
        eof == ResultErr("io error: unexpected end of file")
    IN  IF kind = "addr" THEN
            IF pos + 3 > n THEN eof
            ELSE IF b[pos + 1] # 0 \/ b[pos + 2] # 0 \/ b[pos + 3] # 0
                    \/ b[pos] > 1
            THEN ResultErr("invalid value: expected variant index 0 <= i < 2")
            ELSE LET octets == IF b[pos] = 0 THEN 4 ELSE 16 IN
                 IF pos + 3 + octets + 2 > n THEN eof
                 ELSE [ok |-> TRUE,
                       v |-> [ip |-> SubSeq(b, pos + 4, pos + 3 + octets),
                              port |-> b[pos + 4 + octets]
                                       + 256 * b[pos + 5 + octets]],
                       next |-> pos + 6 + octets]
        ELSE
            IF pos + 7 > n THEN eof
            ELSE LET len == b[pos] + 256 * b[pos + 1] + 65536 * b[pos + 2] IN
                 IF \/ \E i \in 3..7 : b[pos + i] # 0
                    \/ pos + 7 + len > n
                 THEN eof
                 ELSE IF kind = "string" /\ ~is_utf8(b, pos + 8, pos + 7 + len)
                 THEN ResultErr("invalid utf-8 sequence")
                 ELSE [ok |-> TRUE,
                       v |-> SubSeq(b, pos + 8, pos + 7 + len),
                       next |-> pos + 8 + len]

\* faulty variant: the mobility ticket is read back as text
DataFields_TicketAsText ==
    <<"addr", "string", "string", "string", "string", "string", "addr">>

\* the fields of Data in declaration order, lib.rs 30-37
DataFields ==
    <<"addr", "string", "string", "string", "string", "bytes", "addr">>

\* the fields `kinds` read one after the other from b[pos..]; bytes after
\* the last field are left unread (bincode::deserialize allows them).
\* (Here and below a step's result is bound by `x \in {step}`, so that it
\* is evaluated once.)
RECURSIVE bincode_fields(_, _, _)
bincode_fields(b, pos, kinds) ==
    IF kinds = <<>> THEN ResultOk(<<>>)
    ELSE CHOOSE out \in
            {IF ~r.ok THEN ResultErr(r.e)
             ELSE CHOOSE fields \in
                     {IF ~rest.ok THEN rest ELSE ResultOk(<<r.v>> \o rest.v) :
                         rest \in {bincode_fields(b, r.next, Tail(kinds))}} :
                     TRUE :
                r \in {bincode_read(b, pos, Head(kinds))}} : TRUE

\* bincode::deserialize::<Data>, lib.rs 63
bincode_deserialize(b) ==
    CHOOSE out \in
        {IF ~r.ok THEN r
         ELSE ResultOk([turn_server |-> r.v[1], username |-> r.v[2],
                        password |-> r.v[3], realm |-> r.v[4],
                        nonce |-> r.v[5], mobility_ticket |-> r.v[6],
                        counterpart |-> r.v[7]]) :
            r \in {bincode_fields(b, 1, DataFields)}} : TRUE

\* Data::deserialize, lib.rs 58-64: each step's error is returned by `?`
deserialize(x) ==
    CHOOSE out \in
        {IF ~z.ok THEN z
         ELSE CHOOSE data \in
                 {IF ~b.ok THEN b ELSE bincode_deserialize(b.v) :
                     b \in {zlib_decode(z.v)}} : TRUE :
            z \in {base64_decode(x)}} : TRUE

(***************************************************************************)
(* What a session (a TurnClient as a Stream) can deliver to tie().         *)
(***************************************************************************)
AllocationGranted(a, m) ==
    [type |-> "AllocationGranted", relay_address |-> a, mobility |-> m]
RedirectedToAlternateServer(a) ==
    [type |-> "RedirectedToAlternateServer", alt |-> a]
PermissionCreated(a) == [type |-> "PermissionCreated", addr |-> a]
PermissionNotCreated(a) == [type |-> "PermissionNotCreated", addr |-> a]
Disconnected == [type |-> "Disconnected"]
RecvFrom(a, buf) == [type |-> "RecvFrom", fromaddr |-> a, buf |-> buf]

\* MessageFromTurnServer: the variants tie() names, and one it does not
TieMessages ==
    {AllocationGranted(a, m) : a \in Addrs, m \in BOOLEAN}
    \cup {RedirectedToAlternateServer(Stranger)}
    \cup {PermissionCreated(a) : a \in Addrs}
    \cup {PermissionNotCreated(Stranger)}
    \cup {Disconnected}
    \cup {RecvFrom(Stranger, <<1>>)}

\* Option<Result<MessageFromTurnServer, Error>>: what c.next() resolves to
StreamEnd == [type |-> "None"]
StreamErr(e) == [type |-> "Err", e |-> e]
StreamOk(m) == [type |-> "Ok", msg |-> m]
TieItems ==
    {StreamEnd, StreamErr("turnclient error")} \cup {StreamOk(m) : m \in TieMessages}

\* MessageToTurnServer::AddPermission(addr, ChannelUsage::JustPermission)
AddPermission(a) ==
    [type |-> "AddPermission", addr |-> a, usage |-> "JustPermission"]

\* the errors tie() returns
Err(text) == [text |-> text, alt |-> None]
ErrSuddenEnd == Err("Sudden end of TURN client incoming messages")
ErrNoMobility == Err("No RFC 8016 mobility received from TURN server")
ErrRedirected(a) ==
    [text |-> "We are being redirected to {alt}. This is not supported by turntie.",
     alt |-> Some(a)]
ErrUnexpectedPermission ==
    Err("Unexpected granted permission. Something is wrong with the code?")
ErrPermissionNotCreated == Err("Failed to create permission on TURN server")
ErrDisconnected == Err("Disconnected from TURN server")
ErrSend == Err("turnclient send error")

(***************************************************************************)
(* tie(), lib.rs 68-176.  The state is the one after lib.rs 87-98: both    *)
(* sessions built, their allocation requests sent.                         *)
(***************************************************************************)
Session(state) == [sink |-> <<>>, state |-> state]

SessionStates ==
    [realm : Realms, nonce : Nonces, mobility_ticket : Tickets]

InitTie ==
    /\ args \in [turn_server : {TurnServer}, username : Usernames,
                 password : Passwords]
    /\ c1 \in {Session(st) : st \in SessionStates}
    /\ c2 \in {Session(st) : st \in SessionStates}
    /\ addr1 = None
    /\ addr2 = None
    /\ ready1 = FALSE
    /\ ready2 = FALSE
    /\ perm_requests_sent = FALSE
    /\ pc = "select"
    /\ returned = None
    /\ error = None
    /\ polls = 0
    /\ msg = None
    /\ alloc = [i \in 1..2 |-> None]
    /\ confirm = [i \in 1..2 |-> None]

\* faulty variant: any confirmed address is taken for the counterpart's
PermissionConfirms_Any(first, addr, a1, a2) == TRUE

\* lib.rs 131 and 133: does PermissionCreated(addr) confirm this side
PermissionConfirms(first, addr, a1, a2) ==
    IF first THEN Some(addr) = a2 ELSE Some(addr) = a1

\* the locals the match may change, and the error it returns with (or None)
Locals == [bail |-> None, addr1 |-> addr1, addr2 |-> addr2,
           ready1 |-> ready1, ready2 |-> ready2]

\* faulty variant: the mobility flag is not looked at
AllocationGrantedArm_NoMobilityCheck(first, m, keep) ==
    IF first THEN [keep EXCEPT !.addr1 = Some(m.relay_address)]
    ELSE [keep EXCEPT !.addr2 = Some(m.relay_address)]

\* lib.rs 111-124: the AllocationGranted arm
AllocationGrantedArm(first, m, keep) ==
    IF ~m.mobility THEN [keep EXCEPT !.bail = Some(ErrNoMobility)]
    ELSE IF first THEN [keep EXCEPT !.addr1 = Some(m.relay_address)]
    ELSE [keep EXCEPT !.addr2 = Some(m.relay_address)]

\* faulty variant: a confirmation for a side already confirmed is an error
PermissionCreatedArm_RejectsDuplicate(first, m, keep) ==
    IF first /\ ~keep.ready1 /\ Some(m.addr) = keep.addr2
    THEN [keep EXCEPT !.ready1 = TRUE]
    ELSE IF ~first /\ ~keep.ready2 /\ Some(m.addr) = keep.addr1
    THEN [keep EXCEPT !.ready2 = TRUE]
    ELSE [keep EXCEPT !.bail = Some(ErrUnexpectedPermission)]

\* lib.rs 130-140: the PermissionCreated arm
PermissionCreatedArm(first, m, keep) ==
    IF first /\ PermissionConfirms(first, m.addr, keep.addr1, keep.addr2)
    THEN [keep EXCEPT !.ready1 = TRUE]
    ELSE IF ~first /\ PermissionConfirms(first, m.addr, keep.addr1, keep.addr2)
    THEN [keep EXCEPT !.ready2 = TRUE]
    ELSE [keep EXCEPT !.bail = Some(ErrUnexpectedPermission)]

\* faulty variant: once a side is confirmed these events are let pass
FatalArm_IgnoredOnceReady(m, keep) ==
    IF keep.ready1 \/ keep.ready2 THEN keep
    ELSE CASE m.type = "RedirectedToAlternateServer" ->
                 [keep EXCEPT !.bail = Some(ErrRedirected(m.alt))]
           [] m.type = "PermissionNotCreated" ->
                 [keep EXCEPT !.bail = Some(ErrPermissionNotCreated)]
           [] m.type = "Disconnected" ->
                 [keep EXCEPT !.bail = Some(ErrDisconnected)]
           [] OTHER -> keep

\* lib.rs 125-129, 141-144: the arms that only bail
FatalArm(m, keep) ==
    CASE m.type = "RedirectedToAlternateServer" ->
            [keep EXCEPT !.bail = Some(ErrRedirected(m.alt))]
      [] m.type = "PermissionNotCreated" ->
            [keep EXCEPT !.bail = Some(ErrPermissionNotCreated)]
      [] m.type = "Disconnected" ->
            [keep EXCEPT !.bail = Some(ErrDisconnected)]
      [] OTHER -> keep

\* lib.rs 110-146: the match
Match(first, m) ==
    CASE m.type = "AllocationGranted" -> AllocationGrantedArm(first, m, Locals)
      [] m.type = "PermissionCreated" -> PermissionCreatedArm(first, m, Locals)
      [] OTHER -> FatalArm(m, Locals)

\* faulty variant: the one-shot flag is not tested
NeedPermRequests_Unguarded(a1, a2, sent) == is_some(a1) /\ is_some(a2)

\* faulty variant: the one-shot flag is tested the wrong way round
NeedPermRequests_Inverted(a1, a2, sent) == is_some(a1) /\ is_some(a2) /\ sent

\* lib.rs 148: the guard of the cross-authorization step
NeedPermRequests(a1, a2, sent) == is_some(a1) /\ is_some(a2) /\ ~sent

\* faulty variant: each session authorizes its own relay address
PermissionPeer_Own(first, a1, a2) == IF first THEN unwrap(a1) ELSE unwrap(a2)

\* lib.rs 153 and 158: the peer each AddPermission names
PermissionPeer(first, a1, a2) == IF first THEN unwrap(a2) ELSE unwrap(a1)

\* faulty variant: one confirmed side is enough
BothReady_Either(r1, r2) == r1 \/ r2

\* lib.rs 164: the loop's exit condition
BothReady(r1, r2) == r1 /\ r2

\* faulty variant: each descriptor gets its own side's relay address
Descriptors_Swapped(a1, a2) ==
    <<Data_new(args.turn_server, args.username, args.password,
               export_state(c1), unwrap(a1)),
      Data_new(args.turn_server, args.username, args.password,
               export_state(c2), unwrap(a2))>>

\* lib.rs 169-175: the two descriptors
Descriptors(a1, a2) ==
    LET params1 == export_state(c1)
        params2 == export_state(c2)
        spec1 == Data_new(args.turn_server, args.username, args.password,
                          params1, unwrap(a2))
        spec2 == Data_new(args.turn_server, args.username, args.password,
                          params2, unwrap(a1))
    IN  <<spec1, spec2>>

\* faulty variant: the error is noted and the loop goes on
Fail_Retry(e) ==
    /\ pc' = "select"
    /\ error' = Some(e)
    /\ returned' = None

\* an early return with an error: `?` and bail!
Fail(e) ==
    /\ pc' = "failed"
    /\ error' = Some(e)
    /\ returned' = None

\* lib.rs 164-175: break and return the serialized descriptors, or loop.
\* addr2.unwrap() and addr1.unwrap() at lib.rs 172-173 panic on None.
LoopEnd(r1, r2, a1, a2) ==
    IF BothReady(r1, r2)
    THEN IF is_some(a1) /\ is_some(a2)
         THEN /\ pc' = "done"
              /\ returned' = Some(<<serialize(Descriptors(a1, a2)[1]),
                                    serialize(Descriptors(a1, a2)[2])>>)
              /\ error' = None
         ELSE /\ pc' = "panicked"
              /\ UNCHANGED <<returned, error>>
    ELSE /\ pc' = "select"
         /\ UNCHANGED <<returned, error>>

\* lib.rs 101-148 (and 164-175 when nothing is sent): select! resolves with
\* `item` from c1 (first) or c2, and the loop body runs up to its first await
Select(first, item) ==
    /\ pc = "select"
    /\ polls < MaxPolls
    /\ polls' = polls + 1
    /\ msg' = Some([first |-> first, item |-> item])
    /\ alloc' = IF item.type = "Ok" /\ item.msg.type = "AllocationGranted"
                THEN [alloc EXCEPT ![IF first THEN 1 ELSE 2] =
                                        Some(item.msg.relay_address)]
                ELSE alloc
    /\ confirm' = IF /\ item.type = "Ok"
                     /\ item.msg.type = "PermissionCreated"
                     /\ IF first THEN ~ready1 /\ Match(first, item.msg).ready1
                        ELSE ~ready2 /\ Match(first, item.msg).ready2
                  THEN [confirm EXCEPT ![IF first THEN 1 ELSE 2] =
                                            Some(item.msg.addr)]
                  ELSE confirm
    /\ UNCHANGED <<args, c1, c2>>
    /\ IF item.type = "None" THEN
            /\ Fail(ErrSuddenEnd)
            /\ UNCHANGED <<addr1, addr2, ready1, ready2, perm_requests_sent>>
       ELSE IF item.type = "Err" THEN
            /\ Fail(Err(item.e))
            /\ UNCHANGED <<addr1, addr2, ready1, ready2, perm_requests_sent>>
       ELSE LET r == Match(first, item.msg) IN
            IF is_some(r.bail) THEN
                /\ Fail(unwrap(r.bail))
                /\ addr1' = r.addr1
                /\ addr2' = r.addr2
                /\ ready1' = r.ready1
                /\ ready2' = r.ready2
                /\ UNCHANGED perm_requests_sent
            ELSE
                /\ addr1' = r.addr1
                /\ addr2' = r.addr2
                /\ ready1' = r.ready1
                /\ ready2' = r.ready2
                /\ IF NeedPermRequests(r.addr1, r.addr2, perm_requests_sent)
                   THEN /\ perm_requests_sent' = TRUE
                        /\ pc' = "send1"
                        /\ UNCHANGED <<returned, error>>
                   ELSE /\ UNCHANGED perm_requests_sent
                        /\ LoopEnd(r.ready1, r.ready2, r.addr1, r.addr2)

\* how c.send(..).await ends: Ok, or Err before or after the session took the
\* directive (SinkExt::send is poll_ready, start_send, then flush)
SendOutcomes == {"ok", "err_not_taken", "err_taken"}

\* faulty variant: a failed send on session 1 does not stop tie()
Send1_GoesOn(outcome) ==
    /\ pc = "send1"
    /\ c1' = IF outcome = "err_not_taken" THEN c1
             ELSE [c1 EXCEPT !.sink = Append(@, AddPermission(
                                         PermissionPeer(TRUE, addr1, addr2)))]
    /\ pc' = "send2"
    /\ UNCHANGED <<returned, error>>
    /\ UNCHANGED <<args, c2, addr1, addr2, ready1, ready2, perm_requests_sent,
                   polls, msg, alloc, confirm>>

\* lib.rs 152-156: c1.send(AddPermission(addr2.unwrap(), JustPermission)).await?
Send1(outcome) ==
    /\ pc = "send1"
    /\ c1' = IF outcome = "err_not_taken" THEN c1
             ELSE [c1 EXCEPT !.sink = Append(@, AddPermission(
                                         PermissionPeer(TRUE, addr1, addr2)))]
    /\ IF outcome = "ok"
       THEN /\ pc' = "send2"
            /\ UNCHANGED <<returned, error>>
       ELSE Fail(ErrSend)
    /\ UNCHANGED <<args, c2, addr1, addr2, ready1, ready2, perm_requests_sent,
                   polls, msg, alloc, confirm>>

\* lib.rs 157-162, then 164-175
Send2(outcome) ==
    /\ pc = "send2"
    /\ c2' = IF outcome = "err_not_taken" THEN c2
             ELSE [c2 EXCEPT !.sink = Append(@, AddPermission(
                                         PermissionPeer(FALSE, addr1, addr2)))]
    /\ IF outcome = "ok"
       THEN LoopEnd(ready1, ready2, addr1, addr2)
       ELSE Fail(ErrSend)
    /\ UNCHANGED <<args, c1, addr1, addr2, ready1, ready2, perm_requests_sent,
                   polls, msg, alloc, confirm>>

(***************************************************************************)
(* TurnTie as a Stream, lib.rs 211-243.                                    *)
(***************************************************************************)
Pending == [poll |-> "Pending"]
Ready(item) == [poll |-> "Ready", item |-> item]
\* Some(Ok(bytes)): an item of the TurnTie stream
ItemOk(bytes) == [type |-> "Ok", bytes |-> bytes]

Ping == <<112, 105, 110, 103>>
Pong == <<112, 111, 110, 103>>

\* what the resumed session may deliver: data from two origins, other events,
\* an error
StreamMessages ==
    {RecvFrom(a, buf) : a \in {RelayA, RelayB}, buf \in {Ping, Pong}}
    \cup {PermissionCreated(RelayA), Disconnected}
StreamItems ==
    {StreamOk(m) : m \in StreamMessages} \cup {StreamErr("turnclient error")}

\* faulty variant: the origin is not compared
FromCounterpart_Any(fromaddr, cp) == TRUE

\* faulty variant: the comparison is the wrong way round
FromCounterpart_Inverted(fromaddr, cp) == fromaddr # cp

\* lib.rs 233: is this RecvFrom for the caller
FromCounterpart(fromaddr, cp) == fromaddr = cp

\* faulty variant: an event that is not data ends the stream instead of being skipped
RECURSIVE poll_next_EndsOnOther(_, _, _)
poll_next_EndsOnOther(incoming, avail, cp) ==
    IF avail = 0 THEN [ret |-> Pending, taken |-> 0]
    ELSE LET item == Head(incoming) IN
         IF item.type = "None" THEN [ret |-> Ready(StreamEnd), taken |-> 1]
         ELSE IF item.type = "Err"
         THEN [ret |-> Ready(StreamErr(item.e)), taken |-> 1]
         ELSE IF item.msg.type # "RecvFrom"
         THEN [ret |-> Ready(StreamEnd), taken |-> 1]
         ELSE IF FromCounterpart(item.msg.fromaddr, cp)
         THEN [ret |-> Ready(ItemOk(item.msg.buf)), taken |-> 1]
         ELSE LET rest == poll_next_EndsOnOther(Tail(incoming), avail - 1, cp)
              IN  [ret |-> rest.ret, taken |-> rest.taken + 1]

\* lib.rs 226-241: the loop of poll_next over the items the session has ready
\* now (its first `avail` items; after them the session is Pending).  ret is
\* what poll_next returns, taken the number of items it took from the session.
RECURSIVE poll_next(_, _, _)
poll_next(incoming, avail, cp) ==
    IF avail = 0 THEN [ret |-> Pending, taken |-> 0]
    ELSE LET item == Head(incoming) IN
         IF item.type = "None" THEN [ret |-> Ready(StreamEnd), taken |-> 1]
         ELSE IF item.type = "Err"
         THEN [ret |-> Ready(StreamErr(item.e)), taken |-> 1]
         ELSE IF /\ item.msg.type = "RecvFrom"
                 /\ FromCounterpart(item.msg.fromaddr, cp)
         THEN [ret |-> Ready(ItemOk(item.msg.buf)), taken |-> 1]
         ELSE LET rest == poll_next(Tail(incoming), avail - 1, cp)
              IN  [ret |-> rest.ret, taken |-> rest.taken + 1]

\* one call of TurnTie::poll_next, the session having `avail` items ready
PollNext(avail) ==
    /\ avail \in 0..Len(turnclient.incoming)
    /\ LET r == poll_next(turnclient.incoming, avail, counterpart) IN
        /\ turnclient' = [turnclient EXCEPT
                            !.incoming = SubSeq(@, r.taken + 1, Len(@))]
        /\ consumed' = consumed \o SubSeq(turnclient.incoming, 1, r.taken)
        /\ last_poll' = Some(r.ret)
        /\ yielded' = IF r.ret = Pending THEN yielded
                      ELSE Append(yielded, r.ret.item)
    /\ UNCHANGED counterpart

\* sequences over S of length at most n
RECURSIVE SeqsUpTo(_, _)
SeqsUpTo(S, n) ==
    IF n = 0 THEN {<<>>}
    ELSE LET shorter == SeqsUpTo(S, n - 1)
         IN  shorter \cup {Append(q, x) : q \in shorter, x \in S}

\* faulty variant: no permission is restored
ExportedParameters_NoPermission(data) ==
    [realm |-> data.realm, nonce |-> data.nonce,
     mobility_ticket |-> data.mobility_ticket,
     permissions |-> <<>>]

\* connect()'s ExportedParameters, lib.rs 194-201: the descriptor's session
\* state and one permission, for the counterpart, with no channel
ExportedParameters(data) ==
    [realm |-> data.realm, nonce |-> data.nonce,
     mobility_ticket |-> data.mobility_ticket,
     permissions |-> <<<<data.counterpart, None>>>>]

\* TurnClientBuilder::restore_from_exported_parameters, lib.rs 203: a session
\* that was handed nothing yet, holds the restored parameters and will
\* deliver `incoming`.  built_by tells it from the sessions of tie(), which
\* build_and_send_request makes (lib.rs 86-87) and which start by asking the
\* relay for an allocation.
restore_from_exported_parameters(params, incoming) ==
    [incoming |-> incoming, sink |-> <<>>, params |-> params,
     built_by |-> "restore_from_exported_parameters"]

\* the descriptor of the TurnTie a stream specification polls
StreamData(cp) ==
    [turn_server |-> TurnServer, username |-> <<117>>, password |-> <<112>>,
     realm |-> <<114>>, nonce |-> <<110>>, mobility_ticket |-> <<7>>,
     counterpart |-> cp]

\* the session delivers some items and then either ends or stays pending
InitStream ==
    /\ counterpart \in {RelayA, RelayB}
    /\ \E q \in SeqsUpTo(StreamItems, MaxIncoming), ends \in BOOLEAN :
          turnclient = restore_from_exported_parameters(
                           ExportedParameters(StreamData(counterpart)),
                           IF ends THEN Append(q, StreamEnd) ELSE q)
    /\ consumed = <<>>
    /\ yielded = <<>>
    /\ last_poll = None

\* the values of the part of the state a specification does not use
IdleStream ==
    /\ turnclient = restore_from_exported_parameters(
                        ExportedParameters(StreamData(RelayA)), <<>>)
    /\ counterpart = RelayA
    /\ consumed = <<>>
    /\ yielded = <<>>
    /\ last_poll = None

IdleTie ==
    /\ args = [turn_server |-> TurnServer, username |-> <<117>>,
               password |-> <<112>>]
    /\ c1 = Session([realm |-> <<114>>, nonce |-> <<110>>,
                     mobility_ticket |-> <<7>>])
    /\ c2 = c1
    /\ addr1 = None
    /\ addr2 = None
    /\ ready1 = FALSE
    /\ ready2 = FALSE
    /\ perm_requests_sent = FALSE
    /\ pc = "idle"
    /\ returned = None
    /\ error = None
    /\ polls = 0
    /\ msg = None
    /\ alloc = [i \in 1..2 |-> None]
    /\ confirm = [i \in 1..2 |-> None]
    /\ relay = [i \in 1..2 |-> None]

(***************************************************************************)
(* connect(), lib.rs 182-209, and TurnTie as a Sink, lib.rs 245-277.       *)
(***************************************************************************)
SockV6(octets, port) == [ip |-> octets, port |-> port]

TurnServer6 == SockV6(<<32, 1, 13, 184, 0, 0, 0, 0, 0, 0, 0, 0, 0, 0, 0, 1>>, 3478)
Relay6 == SockV6(<<32, 1, 13, 184, 0, 0, 0, 0, 0, 0, 0, 0, 0, 0, 0, 1>>, 65535)

\* descriptors tie() can produce: both address families, a user name of two
\* bytes for one character, an empty password, a ticket that is not text
ValidDescriptors ==
    {Data_new(ts, who[1], who[2], [realm |-> <<114>>, nonce |-> <<110, 0>>,
                                   mobility_ticket |-> t], cp) :
        ts \in {TurnServer, TurnServer6},
        who \in {<<<<117>>, <<112>>>>, <<<<195, 169>>, <<>>>>},
        t \in Tickets, cp \in {RelayA, Relay6}}

\* what can happen to the text between tie() and connect(), lib.rs 182 and
\* main.rs 46: nothing, or damage to the text, to the compressed bytes under
\* it, or to the record under those
Damages ==
    {"bad_char", "cut", "bad_header", "bad_checksum", "short_record",
     "bad_variant", "bad_utf8", "trailing"}

damaged(text, kind) ==
    LET z == base64_decode(text).v
        q == zlib_decode(z).v
        name == (IF q[1] = 0 THEN 10 ELSE 22) + 9
    IN  IF kind = "bad_char" THEN [text EXCEPT ![1] = 33]
        ELSE IF kind = "cut" THEN SubSeq(text, 1, Len(text) - 1)
        ELSE IF kind = "bad_header" THEN base64_encode([z EXCEPT ![1] = 0])
        ELSE IF kind = "bad_checksum"
        THEN base64_encode([z EXCEPT ![Len(z)] = (@ + 1) % 256])
        ELSE IF kind = "short_record"
        THEN base64_encode(zlib_encode(SubSeq(q, 1, Len(q) - 1)))
        ELSE IF kind = "bad_variant"
        THEN base64_encode(zlib_encode([q EXCEPT ![1] = 2]))
        ELSE IF kind = "bad_utf8"
        THEN base64_encode(zlib_encode([q EXCEPT ![name] = 255]))
        ELSE base64_encode(zlib_encode(q \o <<0>>))

\* lib.rs 188-191: the unspecified address of the TURN server's family
neutral_sockaddr(turn_server) ==
    IF Len(turn_server.ip) = 4 THEN SockV4(0, 0, 0, 0, 0)
    ELSE SockV6(<<0, 0, 0, 0, 0, 0, 0, 0, 0, 0, 0, 0, 0, 0, 0, 0>>, 0)

\* faulty variant: the socket is bound before the text is decoded
connect_BindsFirst(text, bind_ok, restore_ok, incoming) ==
    CHOOSE out \in
        {[decoded |-> data, bound |-> <<SockV4(0, 0, 0, 0, 0)>>,
          ret |-> IF ~data.ok THEN ResultErr(data.e)
                  ELSE IF ~bind_ok THEN ResultErr("bind")
                  ELSE IF ~restore_ok THEN ResultErr("restore")
                  ELSE ResultOk(
                      [turnclient |-> restore_from_exported_parameters(
                                          ExportedParameters(data.v), incoming),
                       counterpart |-> data.v.counterpart])] :
            data \in {deserialize(text)}} : TRUE

\* connect(), lib.rs 182-209.  bind_ok and restore_ok say whether
\* UdpSocket::bind and restore_from_exported_parameters succeed; `incoming`
\* is what the restored session will deliver.  bound lists the addresses
\* UdpSocket::bind was called with.
connect(text, bind_ok, restore_ok, incoming) ==
    CHOOSE out \in
        {IF ~data.ok
         THEN [decoded |-> data, bound |-> <<>>, ret |-> ResultErr(data.e)]
         ELSE IF ~bind_ok
         THEN [decoded |-> data,
               bound |-> <<neutral_sockaddr(data.v.turn_server)>>,
               ret |-> ResultErr("bind")]
         ELSE IF ~restore_ok
         THEN [decoded |-> data,
               bound |-> <<neutral_sockaddr(data.v.turn_server)>>,
               ret |-> ResultErr("restore")]
         ELSE [decoded |-> data,
               bound |-> <<neutral_sockaddr(data.v.turn_server)>>,
               ret |-> ResultOk(
                   [turnclient |-> restore_from_exported_parameters(
                                       ExportedParameters(data.v), incoming),
                    counterpart |-> data.v.counterpart])] :
            data \in {deserialize(text)}} : TRUE

\* MessageToTurnServer::SendTo(addr, data)
SendTo(a, payload) == [type |-> "SendTo", addr |-> a, data |-> payload]

\* faulty variant: the payload is handed to the session twice
start_send_Twice(cp, item) == <<SendTo(cp, item), SendTo(cp, item)>>

\* faulty variant: the directive names another destination
start_send_Elsewhere(cp, item) == <<SendTo(Stranger, item)>>

\* TurnTie::start_send, lib.rs 256-260: the directives handed to the session
\* for one payload
start_send(cp, item) == <<SendTo(cp, item)>>

\* what the session's start_send returns, and what its poll_ready, poll_flush
\* and poll_close return
SinkResults == {ResultOk(<<>>), ResultErr("turnclient error")}
SinkPolls == {Pending} \cup {Ready(r) : r \in SinkResults}

\* the text of the descriptor comes into being (Data::serialize, lib.rs 52)
Serialize ==
    /\ cpc = "new"
    /\ specifier' = Some(serialize(descriptor))
    /\ cpc' = "serialized"
    /\ UNCHANGED <<descriptor, damage, decoded, conn_error, udp, accepted,
                   sink_ret>>

\* the text reaches connect() changed
Damage(kind) ==
    /\ cpc = "serialized"
    /\ damage = "none"
    /\ damage' = kind
    /\ specifier' = Some(damaged(unwrap(specifier), kind))
    /\ UNCHANGED <<descriptor, cpc, decoded, conn_error, udp, accepted,
                   sink_ret>>

\* one call of connect(specifier)
Connect(bind_ok, restore_ok, incoming) ==
    /\ cpc = "serialized"
    /\ \E r \in {connect(unwrap(specifier), bind_ok, restore_ok, incoming)} :
        /\ decoded' = Some(r.decoded)
        /\ udp' = udp \o r.bound
        /\ IF r.ret.ok
           THEN /\ cpc' = "connected"
                /\ turnclient' = r.ret.v.turnclient
                /\ counterpart' = r.ret.v.counterpart
                /\ UNCHANGED conn_error
           ELSE /\ cpc' = "failed"
                /\ conn_error' = Some(r.ret.e)
                /\ UNCHANGED <<turnclient, counterpart>>
    /\ UNCHANGED <<descriptor, specifier, damage, accepted, sink_ret,
                   consumed, yielded, last_poll>>

\* one call of TurnTie::start_send(item), the session's start_send
\* returning r
StartSend(item, r) ==
    /\ cpc = "connected"
    /\ Len(accepted) < MaxSends
    /\ accepted' = Append(accepted, item)
    /\ turnclient' = [turnclient EXCEPT
                        !.sink = @ \o start_send(counterpart, item)]
    /\ sink_ret' = Some([op |-> "start_send", ret |-> r])
    /\ UNCHANGED <<descriptor, specifier, damage, cpc, decoded, conn_error,
                   udp, counterpart, consumed, yielded, last_poll>>

\* lib.rs 248-254, 262-276: poll_ready, poll_flush and poll_close return
\* what the session's method of the same name returns, r
SinkPoll(op, r) ==
    /\ cpc = "connected"
    /\ sink_ret' = Some([op |-> op, ret |-> r])
    /\ UNCHANGED <<descriptor, specifier, damage, cpc, decoded, conn_error,
                   udp, accepted, streamVars>>

\* the values of the part of the state a specification does not use
IdleConn ==
    /\ descriptor = StreamData(RelayA)
    /\ specifier = None
    /\ damage = "none"
    /\ cpc = "idle"
    /\ decoded = None
    /\ conn_error = None
    /\ udp = <<>>
    /\ accepted = <<>>
    /\ sink_ret = None

(***************************************************************************)
(* Spec: tie() against sessions that may deliver anything, in any order.   *)
(***************************************************************************)
Init ==
    /\ InitTie
    /\ relay = [i \in 1..2 |-> None]
    /\ IdleStream
    /\ IdleConn
    /\ stalled = {}

Recv ==
    \E first \in BOOLEAN, item \in TieItems :
        Select(first, item) /\ UNCHANGED <<relay, streamVars, connVars, stalled>>

SendToC1 ==
    \E o \in SendOutcomes : Send1(o) /\ UNCHANGED <<relay, streamVars, connVars, stalled>>

SendToC2 ==
    \E o \in SendOutcomes : Send2(o) /\ UNCHANGED <<relay, streamVars, connVars, stalled>>

Next == Recv \/ SendToC1 \/ SendToC2

Spec == Init /\ [][Next]_vars

(***************************************************************************)
(* MockSpec: tie() against a relay that grants both allocations with       *)
(* mobility and confirms each authorization it is asked for.  select!      *)
(* takes whichever session has an event; both are served fairly.           *)
(***************************************************************************)
Side(first) == IF first THEN 1 ELSE 2

MockInit ==
    /\ InitTie
    /\ \E a \in Addrs : \E b \in Addrs \ {a} :
          relay = [i \in 1..2 |->
                     Some([relay_address |-> IF i = 1 THEN a ELSE b,
                           granted |-> FALSE, answered |-> 0])]
    /\ IdleStream
    /\ IdleConn
    /\ stalled = {}

\* the session's first event: its allocation, with mobility
MockGranted(first) ==
    LET r == unwrap(relay[Side(first)]) IN
    /\ ~r.granted
    /\ Select(first, StreamOk(AllocationGranted(r.relay_address, TRUE)))
    /\ relay' = [relay EXCEPT ![Side(first)] = Some([r EXCEPT !.granted = TRUE])]
    /\ UNCHANGED <<streamVars, connVars, stalled>>

\* the relay's answer to the next AddPermission the session was handed
MockConfirmed(first) ==
    LET r == unwrap(relay[Side(first)])
        sink == IF first THEN c1.sink ELSE c2.sink
    IN  /\ r.granted
        /\ r.answered < Len(sink)
        /\ Select(first, StreamOk(PermissionCreated(sink[r.answered + 1].addr)))
        /\ relay' = [relay EXCEPT
                       ![Side(first)] = Some([r EXCEPT !.answered = @ + 1])]
        /\ UNCHANGED <<streamVars, connVars, stalled>>

MockEvent(first) == MockGranted(first) \/ MockConfirmed(first)

MockSend1 == Send1("ok") /\ UNCHANGED <<relay, streamVars, connVars, stalled>>

MockSend2 == Send2("ok") /\ UNCHANGED <<relay, streamVars, connVars, stalled>>

MockNext == MockEvent(TRUE) \/ MockEvent(FALSE) \/ MockSend1 \/ MockSend2

MockSpec ==
    /\ MockInit
    /\ [][MockNext]_vars
    /\ WF_vars(MockEvent(TRUE))
    /\ WF_vars(MockEvent(FALSE))
    /\ WF_vars(MockSend1)
    /\ WF_vars(MockSend2)

(***************************************************************************)
(* StallSpec: tie() against the relay of MockSpec and sessions that behave *)
(* as lib.rs 180 describes: "withholding from polling the stream part of   *)
(* the object can eventually hinder sink part as well".  An event tie()    *)
(* has no use for may arrive at a session at any time; until tie() takes   *)
(* it with c.next(), the session's sink makes no progress.                 *)
(***************************************************************************)
\* faulty variant: an event waiting in a session never holds up its sink
Hindered_Never(i, waiting) == FALSE

\* lib.rs 151, 180: the sink of session i is held up while an event waits
Hindered(i, waiting) == i \in waiting

\* an event arrives at session i and waits to be taken
Arrive(i) ==
    /\ i \notin stalled
    /\ pc \in {"select", "send1", "send2"}
    /\ stalled' = stalled \cup {i}
    /\ UNCHANGED <<tieVars, streamVars, connVars>>

\* select! takes the waiting event of a session: one that matches `_ => ()`
StallTake(first) ==
    /\ Side(first) \in stalled
    /\ Select(first, StreamOk(RecvFrom(Stranger, <<1>>)))
    /\ stalled' = stalled \ {Side(first)}
    /\ UNCHANGED <<relay, streamVars, connVars>>

\* the relay's events, behind the waiting one
StallEvent(first) == Side(first) \notin stalled /\ MockEvent(first)

StallSend1 == ~Hindered(1, stalled) /\ MockSend1

StallSend2 == ~Hindered(2, stalled) /\ MockSend2

StallNext ==
    \/ \E i \in 1..2 : Arrive(i)
    \/ \E first \in BOOLEAN : StallTake(first)
    \/ \E first \in BOOLEAN : StallEvent(first)
    \/ StallSend1
    \/ StallSend2

StallSpec == MockInit /\ [][StallNext]_vars

(***************************************************************************)
(* StreamSpec: a TurnTie polled by its caller.                             *)
(***************************************************************************)
StreamInit ==
    /\ InitStream
    /\ IdleTie
    /\ IdleConn
    /\ stalled = {}

Poll ==
    \E avail \in 0..(MaxIncoming + 1) : PollNext(avail) /\ UNCHANGED <<tieVars, connVars, stalled>>

StreamNext == Poll

StreamSpec == StreamInit /\ [][StreamNext]_vars

(***************************************************************************)
(* ConnectSpec: a descriptor is written as text, the text reaches          *)
(* connect() intact or damaged, and the TurnTie connect() returns is used  *)
(* by its caller as a Sink and as a Stream.                                *)
(***************************************************************************)
ConnectInit ==
    /\ descriptor \in ValidDescriptors
    /\ specifier = None
    /\ damage = "none"
    /\ cpc = "new"
    /\ decoded = None
    /\ conn_error = None
    /\ udp = <<>>
    /\ accepted = <<>>
    /\ sink_ret = None
    /\ IdleStream
    /\ IdleTie
    /\ stalled = {}

\* what the restored session delivers
ConnectIncoming ==
    SeqsUpTo({StreamOk(RecvFrom(RelayA, Ping)), StreamOk(Disconnected)}, 1)

Written == Serialize /\ UNCHANGED <<tieVars, streamVars, stalled>>

Damaged ==
    \E kind \in Damages :
        Damage(kind) /\ UNCHANGED <<tieVars, streamVars, stalled>>

Connected ==
    \E bind_ok \in BOOLEAN, restore_ok \in BOOLEAN,
       incoming \in ConnectIncoming :
        Connect(bind_ok, restore_ok, incoming) /\ UNCHANGED <<tieVars, stalled>>

Sent ==
    \E item \in {Ping, Pong}, r \in SinkResults :
        StartSend(item, r) /\ UNCHANGED <<tieVars, stalled>>

SinkPolled ==
    \E op \in {"poll_ready", "poll_flush", "poll_close"}, r \in SinkPolls :
        SinkPoll(op, r) /\ UNCHANGED <<tieVars, stalled>>

Polled ==
    /\ cpc = "connected"
    /\ \E avail \in 0..1 :
          PollNext(avail) /\ UNCHANGED <<tieVars, connVars, stalled>>

ConnectNext ==
    Written \/ Damaged \/ Connected \/ Sent \/ SinkPolled \/ Polled

ConnectSpec == ConnectInit /\ [][ConnectNext]_vars

(***************************************************************************)
(* Properties of tie().                                                    *)
(***************************************************************************)
\* the number of AddPermission directives a session was handed
AddPermissions(c) ==
    Cardinality({i \in DOMAIN c.sink : c.sink[i].type = "AddPermission"})

BothKnown == is_some(addr1) /\ is_some(addr2)

\* the step is one completion of select!, and it delivered a message
Delivers(type) ==
    /\ polls' = polls + 1
    /\ unwrap(msg').item.type = "Ok"
    /\ unwrap(msg').item.msg.type = type

\* the last completion of select! delivered a message of this type
Delivered(type) ==
    /\ is_some(msg)
    /\ unwrap(msg).item.type = "Ok"
    /\ unwrap(msg).item.msg.type = type

\* C1: AddPermission is sent at most once on each session, whatever the two
\* sessions deliver and in whatever order, and a run that returns Ok has sent
\* it exactly once on session 1 and exactly once on session 2.
C1_ExactlyOnce ==
    /\ AddPermissions(c1) <= 1
    /\ AddPermissions(c2) <= 1
    /\ pc = "done" => AddPermissions(c1) = 1 /\ AddPermissions(c2) = 1

\* a successful run in which more events than the four needed were delivered
C1_Witness ==
    /\ pc = "done"
    /\ polls > 4
    /\ AddPermissions(c1) = 1
    /\ AddPermissions(c2) = 1

\* the descriptor of a side: the session's negotiated state and the relay
\* address of the other session
ExpectedDescriptor(c, peer) ==
    [turn_server |-> args.turn_server,
     username |-> args.username,
     password |-> args.password,
     realm |-> c.state.realm,
     nonce |-> c.state.nonce,
     mobility_ticket |-> c.state.mobility_ticket,
     counterpart |-> peer]

\* C2: when tie() returns Ok((d1, d2)), d1 is session 1's exported state with
\* counterpart session 2's relay address, and d2 is session 2's exported state
\* with counterpart session 1's relay address.
C2_Symmetry ==
    pc = "done" =>
        returned = Some(<<serialize(ExpectedDescriptor(c1, unwrap(alloc[2]))),
                          serialize(ExpectedDescriptor(c2, unwrap(alloc[1])))>>)

\* a successful run of two sessions that differ in state and relay address
C2_Witness ==
    /\ pc = "done"
    /\ is_some(returned)
    /\ c1.state # c2.state
    /\ alloc[1] # alloc[2]

\* C3: no AddPermission is sent while a relay address is unknown; the one on
\* session 1 names session 2's recorded address and the one on session 2 names
\* session 1's; both are sent in the loop iteration whose event made the
\* second address known.
C3_NoSendBeforeBothKnown ==
    (c1.sink # <<>> \/ c2.sink # <<>> \/ pc \in {"send1", "send2"}) => BothKnown

C3_SendInSameIteration ==
    /\ pc \in {"send1", "send2"} =>
          /\ Delivered("AllocationGranted")
          /\ unwrap(msg).item.msg.mobility
          /\ Some(unwrap(msg).item.msg.relay_address)
                = IF unwrap(msg).first THEN addr1 ELSE addr2
    /\ (pc = "select" /\ BothKnown) => perm_requests_sent /\ c1.sink # <<>>

C3_SendStep ==
    /\ c1.sink' # c1.sink =>
          /\ pc = "send1"
          /\ BothKnown
          /\ c1.sink' = Append(c1.sink, AddPermission(unwrap(addr2)))
    /\ c2.sink' # c2.sink =>
          /\ pc = "send2"
          /\ BothKnown
          /\ c2.sink' = Append(c2.sink, AddPermission(unwrap(addr1)))
    /\ (~BothKnown /\ BothKnown') => pc' = "send1" /\ polls' = polls + 1
    /\ pc \in {"send1", "send2"} => polls' = polls

\* C3: the directives are sent only once both addresses are known, each names
\* the other side's address, in the iteration that recorded the second address.
C3_CrossAuthorization ==
    /\ [](C3_NoSendBeforeBothKnown /\ C3_SendInSameIteration)
    /\ [][C3_SendStep]_vars

\* both directives sent, in the iteration in which session 1's address, the
\* second one, became known
C3_Witness ==
    /\ pc = "select"
    /\ BothKnown
    /\ Delivered("AllocationGranted")
    /\ unwrap(msg).first
    /\ c1.sink = <<AddPermission(unwrap(addr2))>>
    /\ c2.sink = <<AddPermission(unwrap(addr1))>>
    /\ addr1 # addr2

\* C4: PermissionCreated(address) on a side confirms that side only if address
\* is the recorded relay address of the other side; for any other address,
\* and while the other side's address is not recorded, tie() returns the
\* protocol-violation error and confirms nothing.
C4_Step ==
    Delivers("PermissionCreated") =>
        LET first == unwrap(msg').first
            address == unwrap(msg').item.msg.addr
            other == IF first THEN addr2 ELSE addr1
        IN  IF Some(address) = other
            THEN /\ pc' # "failed"
                 /\ IF first THEN ready1' /\ ready2' = ready2
                    ELSE ready2' /\ ready1' = ready1
            ELSE /\ pc' = "failed"
                 /\ error' = Some(ErrUnexpectedPermission)
                 /\ ready1' = ready1
                 /\ ready2' = ready2

\* C4: every step that takes a PermissionCreated confirms the side or fails as
\* stated above.
C4_PermissionCreated == [][C4_Step]_vars

\* session 1 confirmed its own relay address: the run failed, nothing confirmed
C4_Witness ==
    /\ pc = "failed"
    /\ Delivered("PermissionCreated")
    /\ unwrap(msg).first
    /\ Some(unwrap(msg).item.msg.addr) = addr1
    /\ addr1 # addr2
    /\ is_some(addr2)
    /\ ~ready1
    /\ error = Some(ErrUnexpectedPermission)

\* C5: tie() returns Ok only from a state with ready1 and ready2; in every
\* such state both relay addresses are recorded and both AddPermission
\* directives have been sent.
C5_SuccessOnlyWhenBothReady ==
    /\ pc = "done" => ready1 /\ ready2
    /\ is_some(returned) => pc = "done"
    /\ (ready1 /\ ready2) =>
          /\ BothKnown
          /\ perm_requests_sent
          /\ AddPermissions(c1) = 1
          /\ AddPermissions(c2) = 1

\* a successful return, side 2 being the last to be confirmed
C5_Witness ==
    /\ pc = "done"
    /\ is_some(returned)
    /\ ready1
    /\ ready2
    /\ Delivered("PermissionCreated")
    /\ ~unwrap(msg).first

\* C6: against a relay that grants both allocations with mobility and confirms
\* each authorization it is asked for, every order in which select! takes the
\* two sessions' events, both served fairly, ends in the same state: Ok, both
\* sides confirmed, the same two descriptors.
MockRelayAddress(i) == unwrap(relay[i]).relay_address

C6_Terminal ==
    /\ pc = "done"
    /\ error = None
    /\ ready1
    /\ ready2
    /\ polls = 4
    /\ addr1 = Some(MockRelayAddress(1))
    /\ addr2 = Some(MockRelayAddress(2))
    /\ c1.sink = <<AddPermission(MockRelayAddress(2))>>
    /\ c2.sink = <<AddPermission(MockRelayAddress(1))>>
    /\ returned =
          Some(<<serialize(ExpectedDescriptor(c1, MockRelayAddress(2))),
                 serialize(ExpectedDescriptor(c2, MockRelayAddress(1)))>>)

\* C6: every fair run ends, and stays, in the one terminal state; no run fails.
C6_OrderIndependent ==
    /\ <>[]C6_Terminal
    /\ [](pc \in {"select", "send1", "send2", "done"})
    /\ [](pc = "done" => C6_Terminal)

\* the terminal state, reached with session 2 confirmed before session 1
C6_Witness ==
    /\ C6_Terminal
    /\ Delivered("PermissionCreated")
    /\ unwrap(msg).first

\* C7: a redirect, PermissionNotCreated, Disconnected, the end of a session's
\* events, and AllocationGranted without mobility each end tie() in the step
\* that takes them, each with its own error; no directive is sent in that step
\* or after it, and the address granted without mobility is not recorded.
FatalError(item) ==
    IF item.type = "None" THEN ErrSuddenEnd
    ELSE IF item.msg.type = "RedirectedToAlternateServer"
    THEN ErrRedirected(item.msg.alt)
    ELSE IF item.msg.type = "PermissionNotCreated" THEN ErrPermissionNotCreated
    ELSE IF item.msg.type = "Disconnected" THEN ErrDisconnected
    ELSE ErrNoMobility

IsFatal(item) ==
    \/ item.type = "None"
    \/ /\ item.type = "Ok"
       /\ \/ item.msg.type \in {"RedirectedToAlternateServer",
                                "PermissionNotCreated", "Disconnected"}
          \/ item.msg.type = "AllocationGranted" /\ ~item.msg.mobility

FatalErrors ==
    {ErrSuddenEnd, ErrRedirected(Stranger), ErrPermissionNotCreated,
     ErrDisconnected, ErrNoMobility}

C7_Step ==
    /\ (polls' = polls + 1 /\ IsFatal(unwrap(msg').item)) =>
          /\ pc' = "failed"
          /\ error' = Some(FatalError(unwrap(msg').item))
          /\ returned' = None
          /\ UNCHANGED <<c1, c2, addr1, addr2, ready1, ready2>>
    /\ pc = "failed" => UNCHANGED <<c1, c2, pc, error, returned>>

\* C7: every step that takes a fatal event fails as stated above, and the five
\* errors are five different errors.
C7_FatalEvents ==
    /\ [][C7_Step]_vars
    /\ [](Cardinality(FatalErrors) = 5)

\* session 2, its side already confirmed, grants again without mobility
C7_Witness ==
    /\ pc = "failed"
    /\ Delivered("AllocationGranted")
    /\ ~unwrap(msg).first
    /\ ~unwrap(msg).item.msg.mobility
    /\ Some(unwrap(msg).item.msg.relay_address) # addr2
    /\ error = Some(ErrNoMobility)
    /\ perm_requests_sent
    /\ ready2

(***************************************************************************)
(* Properties of TurnTie as a Stream.                                      *)
(***************************************************************************)
Last(q) == q[Len(q)]

\* the items of the session a step of poll_next took
Taken == SubSeq(consumed', Len(consumed) + 1, Len(consumed'))

\* a RecvFrom whose origin is the counterpart
IsCounterpartData(item) ==
    /\ item.type = "Ok"
    /\ item.msg.type = "RecvFrom"
    /\ item.msg.fromaddr = counterpart

\* data from another origin, or an event that is not data
IsDiscarded(item) == item.type = "Ok" /\ ~IsCounterpartData(item)

IsPassed(item) == ~IsDiscarded(item)

IsOk(item) == item.type = "Ok"

\* the payloads of a sequence of items
Bufs(q) == [i \in 1..Len(q) |-> q[i].msg.buf]
Bytes(q) == [i \in 1..Len(q) |-> q[i].bytes]

\* C8: every payload the stream yields is the payload of a RecvFrom whose
\* origin is the counterpart; data from another origin and events that are not
\* data are taken from the session and yield nothing, and do not end the stream.
C8_Step ==
    /\ \A i \in 1..(Len(Taken) - 1) : IsDiscarded(Taken[i])
    /\ yielded' # yielded =>
          /\ Taken # <<>>
          /\ Len(yielded') = Len(yielded) + 1
          /\ IsPassed(Last(Taken))
          /\ IsOk(Last(yielded')) =>
                /\ IsCounterpartData(Last(Taken))
                /\ Last(yielded').bytes = Last(Taken).msg.buf
    /\ (Taken # <<>> /\ IsDiscarded(Last(Taken))) =>
          /\ yielded' = yielded
          /\ last_poll' = Some(Pending)

\* C8: every step of poll_next yields only the counterpart's data, and every
\* payload yielded so far was delivered by the session from the counterpart.
C8_OnlyFromCounterpart ==
    /\ [][C8_Step]_vars
    /\ [](\A i \in 1..Len(yielded) :
            IsOk(yielded[i]) =>
                \E j \in 1..Len(consumed) :
                    /\ IsCounterpartData(consumed[j])
                    /\ consumed[j].msg.buf = yielded[i].bytes)

\* the stream took data from another origin and an event that is not data,
\* and then yielded the counterpart's payload
C8_Witness ==
    /\ Len(consumed) = 3
    /\ IsOk(consumed[1])
    /\ consumed[1].msg.type = "RecvFrom"
    /\ consumed[1].msg.fromaddr # counterpart
    /\ consumed[2] = StreamOk(Disconnected)
    /\ IsCounterpartData(consumed[3])
    /\ yielded = <<ItemOk(consumed[3].msg.buf)>>

\* C9: the payloads the stream has yielded are the payloads of the RecvFrom
\* events from the counterpart that the session has delivered to it, in the
\* same order, each once.
C9_InDeliveryOrder ==
    Bytes(SelectSeq(yielded, IsOk)) = Bufs(SelectSeq(consumed, IsCounterpartData))

\* "ping" then "pong" from the counterpart, data from another origin between
C9_Witness ==
    /\ Len(consumed) = 3
    /\ consumed[1] = StreamOk(RecvFrom(counterpart, Ping))
    /\ IsOk(consumed[2])
    /\ consumed[2].msg.type = "RecvFrom"
    /\ consumed[2].msg.fromaddr # counterpart
    /\ consumed[3] = StreamOk(RecvFrom(counterpart, Pong))
    /\ yielded = <<ItemOk(Ping), ItemOk(Pong)>>

\* C10: the stream reports its end only when the session's events have ended,
\* and an error item of the session is passed on as an item of the stream.
\* As claimed, the error is also the last item before the end:
C10_ErrorIsFinal ==
    /\ \A i \in 1..Len(yielded) :
          yielded[i] = StreamEnd => Last(consumed) = StreamEnd
    /\ \A i \in 1..Len(yielded) :
          yielded[i].type = "Err" =>
              \/ i = Len(yielded)
              \/ i + 1 = Len(yielded) /\ yielded[i + 1] = StreamEnd

\* As the code has it: the stream is the session's items in delivery order
\* without the discarded ones, errors and the end included, so what follows an
\* error is whatever the session delivers after it.
Passed(item) ==
    IF IsCounterpartData(item) THEN ItemOk(item.msg.buf) ELSE item

\* C10, amended: the end is reported only when the session has ended, and the
\* stream is the session's items without the discarded ones, in order.
C10_PassThrough ==
    /\ \A i \in 1..Len(yielded) :
          yielded[i] = StreamEnd =>
              /\ i = Len(yielded)
              /\ Last(consumed) = StreamEnd
    /\ LET passed == SelectSeq(consumed, IsPassed)
       IN  yielded = [i \in 1..Len(passed) |-> Passed(passed[i])]

\* a discarded event, then an error, then the end of the session's events
C10_Witness ==
    /\ Len(consumed) = 3
    /\ IsDiscarded(consumed[1])
    /\ consumed[2].type = "Err"
    /\ consumed[3] = StreamEnd
    /\ yielded = <<consumed[2], StreamEnd>>

(***************************************************************************)
(* Properties of the descriptor's text, of connect() and of TurnTie as a   *)
(* Sink.                                                                   *)
(***************************************************************************)
\* the directives the payloads accepted so far call for: one SendTo each,
\* in order, to the counterpart, with the payload as given
ExpectedSendTos ==
    [i \in 1..Len(accepted) |-> SendTo(counterpart, accepted[i])]

C11_OneSendToEach ==
    cpc = "connected" => turnclient.sink = ExpectedSendTos

C11_CounterpartFixed ==
    [][cpc = "connected" => counterpart' = counterpart]_vars

\* C11: every payload start_send accepts is handed to the session as exactly
\* one SendTo(counterpart, payload), and the counterpart of a TurnTie never
\* changes, whatever Sink or Stream method is called
C11_SendToCounterpart == []C11_OneSendToEach /\ C11_CounterpartFixed

\* two different payloads were sent and the stream was polled in between
C11_Witness ==
    /\ cpc = "connected"
    /\ Len(accepted) = 2
    /\ accepted[1] # accepted[2]
    /\ Len(turnclient.sink) = 2
    /\ consumed # <<>>
    /\ counterpart = Relay6

C13_Restored ==
    cpc = "connected" =>
        /\ turnclient.built_by = "restore_from_exported_parameters"
        /\ turnclient.params.permissions = <<<<counterpart, None>>>>
        /\ counterpart = unwrap(decoded).v.counterpart
        /\ \A i \in 1..Len(turnclient.sink) :
              /\ turnclient.sink[i].type = "SendTo"
              /\ turnclient.sink[i].addr = counterpart

C13_ConnectStep ==
    [][cpc = "serialized" /\ cpc' = "connected" => turnclient'.sink = <<>>]_vars

\* C13: connect() builds its session from the exported parameters, not by
\* an allocation request, hands it no directive, and restores exactly one
\* permission, the counterpart's; every directive the session is handed
\* afterwards is a SendTo to the counterpart, none an AddPermission
C13_NoAuthorizationStep == []C13_Restored /\ C13_ConnectStep

\* the first thing the restored session is handed is a SendTo to the
\* counterpart: no Sink or Stream method was called before start_send
C13_Witness ==
    /\ cpc = "connected"
    /\ damage = "none"
    /\ turnclient.sink = <<SendTo(descriptor.counterpart, Ping)>>
    /\ sink_ret = Some([op |-> "start_send", ret |-> ResultOk(<<>>)])
    /\ last_poll = None
    /\ turnclient.params.permissions = <<<<descriptor.counterpart, None>>>>

(***************************************************************************)
(* Properties of tie(), continued.                                         *)
(***************************************************************************)
\* main.rs 53-57: what `turntie tie` prints, one line per descriptor, once
\* tie() returned Ok; an Err leaves main through `?` before the printing
main_stdout ==
    IF pc = "done" THEN <<unwrap(returned)[1], unwrap(returned)[2]>> ELSE <<>>

\* an error and a result exclude each other, and a result is two descriptors
C14_BothOrError ==
    /\ is_some(error) <=> pc = "failed"
    /\ is_some(returned) <=> pc = "done"
    /\ is_some(returned) => Len(unwrap(returned)) = 2
    /\ Len(main_stdout) \in {0, 2}
    /\ is_some(error) => returned = None /\ main_stdout = <<>>

\* the step that meets an error is tie()'s last step
C14_Step ==
    /\ (polls' = polls + 1 /\ unwrap(msg').item.type # "Ok") =>
          /\ pc' = "failed"
          /\ is_some(error')
          /\ UNCHANGED <<c1, c2>>
    /\ (polls' = polls + 1 /\ IsFatal(unwrap(msg').item)) =>
          /\ pc' = "failed"
          /\ is_some(error')
          /\ UNCHANGED <<c1, c2>>
    /\ (pc = "send1" /\ pc' # "send2") =>
          /\ pc' = "failed"
          /\ error' = Some(ErrSend)
          /\ UNCHANGED <<c2, polls>>
    /\ (pc = "send2" /\ pc' \notin {"select", "done"}) =>
          /\ pc' = "failed"
          /\ error' = Some(ErrSend)
          /\ UNCHANGED <<c1, polls>>
    /\ pc = "failed" => UNCHANGED tieVars

\* C14: a fatal event, an error item, the end of a session's events or a
\* failed send makes the step in which it is met tie()'s last: the run has
\* failed, no event is taken and no directive sent afterwards, and tie()
\* returns two descriptors or an error, never one descriptor
C14_ErrorEndsRun == []C14_BothOrError /\ [][C14_Step]_vars

\* a send failed after session 1 had been handed its directive: tie()
\* returned the error, and session 2 was handed nothing
C14_Witness ==
    /\ pc = "failed"
    /\ error = Some(ErrSend)
    /\ Len(c1.sink) = 1
    /\ c2.sink = <<>>
    /\ returned = None
    /\ BothKnown

(***************************************************************************)
(* Properties of connect() on a text that does not decode.                 *)
(***************************************************************************)
\* the step of deserialize at which the text stops decoding, or "none"
FailingStep(text) ==
    IF ~base64_decode(text).ok THEN "base64"
    ELSE IF ~zlib_decode(base64_decode(text).v).ok THEN "zlib"
    ELSE IF ~bincode_deserialize(zlib_decode(base64_decode(text).v).v).ok
    THEN "record"
    ELSE "none"

C15_Step ==
    (cpc = "serialized" /\ cpc' # "serialized"
     /\ FailingStep(unwrap(specifier)) # "none") =>
        /\ ~deserialize(unwrap(specifier)).ok
        /\ decoded' = Some(deserialize(unwrap(specifier)))
        /\ cpc' = "failed"
        /\ conn_error' = Some(deserialize(unwrap(specifier)).e)
        /\ udp' = <<>>
        /\ UNCHANGED <<turnclient, counterpart>>

SideState(i) ==
    LET addr == IF i = 1 THEN addr1 ELSE addr2
        ready == IF i = 1 THEN ready1 ELSE ready2
        c == IF i = 1 THEN c1 ELSE c2
    IN  IF ready THEN 3
        ELSE IF AddPermissions(c) > 0 THEN 2
        ELSE IF is_some(addr) THEN 1
        ELSE 0

\* C16 (first half): whatever the sessions deliver, a side is confirmed only
\* after its own allocation was granted and the AddPermission was sent on its
\* session.  tie() compares a PermissionCreated only with the other side's
\* address (lib.rs 131, 134), so it does not hold: a confirmation that
\* arrives before the request is taken.
C16_ConfirmedAfterRequested ==
    /\ ready1 => is_some(addr1) /\ AddPermissions(c1) > 0
    /\ ready2 => is_some(addr2) /\ AddPermissions(c2) > 0

\* C16 (second half): no side ever moves back
C16_NeverBack ==
    [][\A i \in 1..2 : SideState(i)' >= SideState(i)]_vars

\* the counterpart written into descriptor i of a successful return
WrittenCounterpart(i) == deserialize(unwrap(returned)[i]).v.counterpart

\* C17: when tie() returns Ok, the counterpart written into each descriptor
\* is the peer named in the AddPermission sent on that descriptor's own
\* session, and the address of the PermissionCreated that confirmed that
\* side, also when a session delivered AllocationGranted more than once.
\* tie() writes the address of the last AllocationGranted (lib.rs 172-173),
\* while AddPermission was sent once, for the address known then.
C17_CounterpartAuthorized ==
    pc = "done" =>
        /\ AddPermissions(c1) = 1
        /\ AddPermissions(c2) = 1
        /\ WrittenCounterpart(1) = c1.sink[1].addr
        /\ WrittenCounterpart(2) = c2.sink[1].addr
        /\ Some(WrittenCounterpart(1)) = confirm[1]
        /\ Some(WrittenCounterpart(2)) = confirm[2]

(***************************************************************************)
(* The sends of tie() and the events that wait meanwhile.                  *)
(***************************************************************************)
\* tie() is awaiting the send on session i
Sending(i) == pc = (IF i = 1 THEN "send1" ELSE "send2")

C18_Step ==
    (Sending(1) \/ Sending(2)) =>
        /\ UNCHANGED <<polls, msg, addr1, addr2, ready1, ready2>>
        /\ stalled \subseteq stalled'
        /\ \A i \in 1..2 :
              (Sending(i) /\ Hindered(i, stalled)) =>
                  Sending(i)' /\ UNCHANGED <<c1, c2>>

\* a send goes through when no event waits in its session, and not otherwise
C18_SendIffNotHindered ==
    /\ Sending(1) => (ENABLED StallSend1 <=> 1 \notin stalled)
    /\ Sending(2) => (ENABLED StallSend2 <=> 2 \notin stalled)

OnConfirmedSide ==
    /\ polls' = polls + 1
    /\ IF unwrap(msg').first THEN ready1 /\ ~ready2 ELSE ready2 /\ ~ready1

C19_Step ==
    /\ (/\ OnConfirmedSide
        /\ \/ IsFatal(unwrap(msg').item)
           \/ unwrap(msg').item.type = "Err") =>
            /\ pc' = "failed"
            /\ is_some(error')
            /\ returned' = None
            /\ error' = IF unwrap(msg').item.type = "Err"
                        THEN Some(Err(unwrap(msg').item.e))
                        ELSE Some(FatalError(unwrap(msg').item))
    /\ (/\ OnConfirmedSide
        /\ Delivers("PermissionCreated")
        /\ Some(unwrap(msg').item.msg.addr)
              = (IF unwrap(msg').first THEN addr2 ELSE addr1)) =>
            UNCHANGED <<c1, c2, addr1, addr2, ready1, ready2,
                        perm_requests_sent, pc, returned, error, alloc,
                        confirm>>

\* C19: on a side already confirmed, the other not yet, a fatal event or an
\* error item still makes tie() return the error, and a second valid
\* PermissionCreated changes nothing: the side stays confirmed, tie() goes on
C19_ConfirmedSide == [][C19_Step]_vars

\* session 1, confirmed, is disconnected while side 2 awaits its confirmation
C19_Witness ==
    /\ pc = "failed"
    /\ Delivered("Disconnected")
    /\ unwrap(msg).first
    /\ ready1
    /\ ~ready2
    /\ perm_requests_sent
    /\ Len(c2.sink) = 1
    /\ error = Some(ErrDisconnected)

(***************************************************************************)
(* The order of the two sends.                                             *)
(***************************************************************************)
\* session 2 is asked only after session 1's send has completed
C20_Order ==
    /\ pc = "send2" => AddPermissions(c1) = 1 /\ c2.sink = <<>>
    /\ c2.sink # <<>> => AddPermissions(c1) = 1
    /\ pc = "send1" => c1.sink = <<>> /\ c2.sink = <<>>

C20_Step ==
    /\ c2' # c2 => pc = "send2"
    /\ (pc = "send1" /\ pc' # "send2") =>
          /\ pc' = "failed"
          /\ error' = Some(ErrSend)
          /\ returned' = None
          /\ c2' = c2
          /\ perm_requests_sent /\ perm_requests_sent'
          /\ Len(c1.sink') >= Len(c1.sink)
          /\ UNCHANGED <<addr1, addr2, ready1, ready2>>
    /\ pc = "failed" => UNCHANGED <<c1, c2, perm_requests_sent, pc, error>>

\* C20: the AddPermission on session 2 is sent only once the send on session
\* 1 has completed; if the send on session 1 fails, tie() returns the error,
\* session 2 is never handed its directive, the one-shot flag stays set and
\* nothing that was done is undone
C20_FirstThenSecond == []C20_Order /\ [][C20_Step]_vars

\* the send on session 1 failed before the session took the directive
C20_Witness ==
    /\ pc = "failed"
    /\ error = Some(ErrSend)
    /\ c1.sink = <<>>
    /\ c2.sink = <<>>
    /\ perm_requests_sent
    /\ BothKnown
====
